---- MODULE Spec2Model ----
(***************************************************************************)
(* Rules engine of the Quoridor game in src/maze.py (class QuoridorGame): *)
(* pawn moves with jumps, wall placement with the path check, turn order  *)
(* and win detection.                                                      *)
(*                                                                         *)
(* Cells and blocker units are pairs <<row, col>>.  Python's None is the  *)
(* empty tuple and an integer v that may also be None is <<v>>.  Rendering *)
(* and the UI's mode switches (wall_placement_mode, selected_wall_type,    *)
(* hover state, the cached possible_moves list) are not part of the rules: *)
(* the two mode switches can be set freely between any two board clicks,   *)
(* so which mutator a click calls, and with which orientation, is an input.*)
(***************************************************************************)
EXTENDS Integers, Sequences, FiniteSets, TLC

(* The board of the source is 9 x 9 with 10 walls for each of the first    *)
(* two players; the model checks the same code on a smaller board with     *)
(* fewer walls in hand.                                                    *)
BOARD_SIZE == 4
START_WALLS == 1

num_players == 2

None == <<>>
Players == 0 .. (num_players - 1)

(* list[:num_players] of a four-element list, as a function on Players.    *)
Slice(list) == [p \in Players |-> list[p + 1]]

Range(s) == {s[i] : i \in DOMAIN s}

VARIABLES
    player_positions,   \* Players -> cell
    walls_remaining,    \* Players -> Nat
    player_walls,       \* Players -> sequence of <<"h"|"v", r, c>>
    horizontal_walls,   \* set of blocker units
    vertical_walls,     \* set of blocker units
    current_player,
    game_over,
    winner,             \* None or <<p>>
    message,            \* the text shown to the players
    op,                 \* the last method called
    ret                 \* what it returned: "None", "True", "False"; for
                        \* a query, its arguments followed by its result

gameVars == <<player_positions, walls_remaining, player_walls, horizontal_walls,
              vertical_walls, current_player, game_over, winner>>
vars == <<player_positions, walls_remaining, player_walls, horizontal_walls,
          vertical_walls, current_player, game_over, winner, message, op, ret>>

(* -------- initialize_game ---------------------------------------------- *)
win_rows == Slice(<<(<<0>>), (<<BOARD_SIZE - 1>>), None, None>>)
win_cols == Slice(<<None, None, (<<BOARD_SIZE - 1>>), (<<0>>)>>)

StartPositions ==
    Slice(<< <<BOARD_SIZE - 1, BOARD_SIZE \div 2>>,
             <<0, BOARD_SIZE \div 2>>,
             <<BOARD_SIZE \div 2, 0>>,
             <<BOARD_SIZE \div 2, BOARD_SIZE - 1>> >>)

StartWalls ==
    Slice(<<START_WALLS, START_WALLS, START_WALLS \div 2, START_WALLS \div 2>>)

TurnMessage(p) == <<"Player", p + 1, "'s turn">>
WinMessage(p) == <<"Player", p + 1, "wins!">>
InvalidMoveMessage == <<"Invalid move!">>
NoWallsMessage == <<"No walls remaining!">>
InvalidWallMessage == <<"Invalid wall placement! Can't block all paths.">>

Init ==
    /\ player_positions = StartPositions
    /\ walls_remaining = StartWalls
    /\ player_walls = [p \in Players |-> <<>>]
    /\ horizontal_walls = {}
    /\ vertical_walls = {}
    /\ current_player = 0
    /\ game_over = FALSE
    /\ winner = None
    /\ message = TurnMessage(0)
    /\ op = "__init__"
    /\ ret = "None"

(* -------- board geometry ------------------------------------------------ *)
Directions == << <<-1, 0>>, <<1, 0>>, <<0, -1>>, <<0, 1>> >>

InBoard(r, c) == 0 <= r /\ r < BOARD_SIZE /\ 0 <= c /\ c < BOARD_SIZE

(* The four-line wall test of one step (dr, dc) out of cell (r, c).        *)
StepBlocked(r, c, dr, dc, H, V) ==
    \/ dr = -1 /\ <<r - 1, c>> \in H
    \/ dr = 1 /\ <<r, c>> \in H
    \/ dc = -1 /\ <<r, c - 1>> \in V
    \/ dc = 1 /\ <<r, c>> \in V

(* Mutant: no cell ever counts as occupied.                                *)
Occupied_Never(cell) == FALSE

(* (row, col) in self.player_positions                                     *)
Occupied(cell) == \E p \in Players : player_positions[p] = cell

(* The player's goal predicate on a cell.                                  *)
AtGoal(p, cell) ==
    \/ win_rows[p] # None /\ cell[1] = win_rows[p][1]
    \/ win_cols[p] # None /\ cell[2] = win_cols[p][1]

(* -------- get_possible_moves ------------------------------------------- *)
(* The side offsets tried when the straight jump leaves the board.         *)
SideDirs(dr, dc) ==
    IF dr # 0 /\ dc # 0 THEN << <<-dr, dc>>, <<dr, -dc>> >>
    ELSE IF dr # 0 THEN << <<dr + 1, dc>>, <<dr - 1, dc>> >>
    ELSE << <<dr, dc + 1>>, <<dr, dc - 1>> >>

SideMove(new_r, new_c, side) ==
    LET diag_r == new_r + side[1]
        diag_c == new_c + side[2]
    IN  IF /\ InBoard(diag_r, diag_c)
           /\ ~StepBlocked(new_r, new_c, side[1], side[2],
                           horizontal_walls, vertical_walls)
           /\ ~Occupied(<<diag_r, diag_c>>)
        THEN << <<diag_r, diag_c>> >>
        ELSE <<>>

DiagonalMoves(new_r, new_c, dr, dc) ==
    SideMove(new_r, new_c, SideDirs(dr, dc)[1])
        \o SideMove(new_r, new_c, SideDirs(dr, dc)[2])

(* Mutant: a direction with a pawn on the next cell offers nothing.        *)
MovesInDirection_NoJump(r, c, dr, dc) ==
    LET new_r == r + dr
        new_c == c + dc
    IN  IF ~InBoard(new_r, new_c) THEN <<>>
        ELSE IF StepBlocked(r, c, dr, dc, horizontal_walls, vertical_walls) THEN <<>>
        ELSE IF Occupied(<<new_r, new_c>>) THEN <<>>
        ELSE << <<new_r, new_c>> >>

(* Mutant: the wall behind the jumped pawn is not looked at.               *)
MovesInDirection_JumpOverWall(r, c, dr, dc) ==
    LET new_r == r + dr
        new_c == c + dc
        jump_r == new_r + dr
        jump_c == new_c + dc
    IN  IF ~InBoard(new_r, new_c) THEN <<>>
        ELSE IF StepBlocked(r, c, dr, dc, horizontal_walls, vertical_walls) THEN <<>>
        ELSE IF Occupied(<<new_r, new_c>>)
             THEN IF ~InBoard(jump_r, jump_c)
                  THEN DiagonalMoves(new_r, new_c, dr, dc)
                  ELSE IF Occupied(<<jump_r, jump_c>>) THEN <<>>
                  ELSE << <<jump_r, jump_c>> >>
             ELSE << <<new_r, new_c>> >>

(* Mutant: a jump stopped by a wall or a pawn falls back on the two cells  *)
(* beside the jumped pawn.                                                 *)
MovesInDirection_SideStepOnBlockedJump(r, c, dr, dc) ==
    LET new_r == r + dr
        new_c == c + dc
        jump_r == new_r + dr
        jump_c == new_c + dc
        beside == << <<new_r + dc, new_c + dr>>, <<new_r - dc, new_c - dr>> >>
        free == SelectSeq(beside,
                          LAMBDA b : InBoard(b[1], b[2]) /\ ~Occupied(b))
    IN  IF ~InBoard(new_r, new_c) THEN <<>>
        ELSE IF StepBlocked(r, c, dr, dc, horizontal_walls, vertical_walls) THEN <<>>
        ELSE IF Occupied(<<new_r, new_c>>)
             THEN IF ~InBoard(jump_r, jump_c)
                  THEN DiagonalMoves(new_r, new_c, dr, dc)
                  ELSE IF StepBlocked(new_r, new_c, dr, dc,
                                      horizontal_walls, vertical_walls) THEN free
                  ELSE IF Occupied(<<jump_r, jump_c>>) THEN free
                  ELSE << <<jump_r, jump_c>> >>
             ELSE << <<new_r, new_c>> >>

(* What one pass of the direction loop appends to `possible`.              *)
MovesInDirection(r, c, dr, dc) ==
    LET new_r == r + dr
        new_c == c + dc
        jump_r == new_r + dr
        jump_c == new_c + dc
    IN  IF ~InBoard(new_r, new_c) THEN <<>>
        ELSE IF StepBlocked(r, c, dr, dc, horizontal_walls, vertical_walls) THEN <<>>
        ELSE IF Occupied(<<new_r, new_c>>)
             THEN IF ~InBoard(jump_r, jump_c)
                  THEN DiagonalMoves(new_r, new_c, dr, dc)
                  ELSE IF StepBlocked(new_r, new_c, dr, dc,
                                      horizontal_walls, vertical_walls) THEN <<>>
                  ELSE IF Occupied(<<jump_r, jump_c>>) THEN <<>>
                  ELSE << <<jump_r, jump_c>> >>
             ELSE << <<new_r, new_c>> >>

get_possible_moves ==
    LET r == player_positions[current_player][1]
        c == player_positions[current_player][2]
        D(i) == MovesInDirection(r, c, Directions[i][1], Directions[i][2])
    IN  D(1) \o D(2) \o D(3) \o D(4)

(* -------- find_path_to_goal -------------------------------------------- *)
(* Mutant: the search steps through vertical units.                        *)
RECURSIVE Expand_IgnoresVertical(_, _, _, _, _, _)
Expand_IgnoresVertical(i, curr, queue, visited, H, V) ==
    IF i > Len(Directions) THEN <<queue, visited>>
    ELSE LET dr == Directions[i][1]
             dc == Directions[i][2]
             new_r == curr[1] + dr
             new_c == curr[2] + dc
         IN  IF \/ ~InBoard(new_r, new_c)
                \/ StepBlocked(curr[1], curr[2], dr, dc, H, {})
                \/ <<new_r, new_c>> \in visited
             THEN Expand_IgnoresVertical(i + 1, curr, queue, visited, H, V)
             ELSE Expand_IgnoresVertical(i + 1, curr,
                                         Append(queue, <<new_r, new_c>>),
                                         visited \cup {<<new_r, new_c>>}, H, V)

(* The direction loop of one dequeued cell: state <<queue, visited>>.      *)
RECURSIVE Expand(_, _, _, _, _, _)
Expand(i, curr, queue, visited, H, V) ==
    IF i > Len(Directions) THEN <<queue, visited>>
    ELSE LET dr == Directions[i][1]
             dc == Directions[i][2]
             new_r == curr[1] + dr
             new_c == curr[2] + dc
         IN  IF \/ ~InBoard(new_r, new_c)
                \/ StepBlocked(curr[1], curr[2], dr, dc, H, V)
                \/ <<new_r, new_c>> \in visited
             THEN Expand(i + 1, curr, queue, visited, H, V)
             ELSE Expand(i + 1, curr, Append(queue, <<new_r, new_c>>),
                         visited \cup {<<new_r, new_c>>}, H, V)

(* The while loop: pop, test the goal, expand.                             *)
RECURSIVE Search(_, _, _, _, _)
Search(player_idx, queue, visited, H, V) ==
    IF queue = <<>> THEN FALSE
    ELSE LET curr == Head(queue)
         IN  IF AtGoal(player_idx, curr) THEN TRUE
             ELSE LET next == Expand(1, curr, Tail(queue), visited, H, V)
                  IN  Search(player_idx, next[1], next[2], H, V)

find_path_to_goal(player_idx, test_walls_h, test_walls_v) ==
    Search(player_idx, <<player_positions[player_idx]>>,
           {player_positions[player_idx]}, test_walls_h, test_walls_v)

(* -------- is_valid_wall_placement -------------------------------------- *)
WallInBounds(r, c) ==
    0 <= r /\ r < BOARD_SIZE - 1 /\ 0 <= c /\ c < BOARD_SIZE - 1

(* Mutant: the second unit is always the one to the right.                 *)
WallUnits_AlwaysRight(r, c, wall_type) == {<<r, c>>, <<r, c + 1>>}

(* The two blocker units of a wall.                                        *)
WallUnits(r, c, wall_type) ==
    IF wall_type = "horizontal" THEN {<<r, c>>, <<r, c + 1>>}
    ELSE {<<r, c>>, <<r + 1, c>>}

(* Mutant: only the unit at the anchor is looked up.                       *)
WallExists_AnchorOnly(r, c, wall_type) ==
    IF wall_type = "horizontal"
    THEN <<r, c>> \in horizontal_walls
    ELSE <<r, c>> \in vertical_walls

WallExists(r, c, wall_type) ==
    IF wall_type = "horizontal"
    THEN <<r, c>> \in horizontal_walls \/ <<r, c + 1>> \in horizontal_walls
    ELSE <<r, c>> \in vertical_walls \/ <<r + 1, c>> \in vertical_walls

(* Mutant: no candidate ever counts as crossing.                           *)
WallIntersects_Never(r, c, wall_type) == FALSE

WallIntersects(r, c, wall_type) ==
    \/ /\ wall_type = "horizontal"
       /\ <<r, c>> \in vertical_walls /\ <<r + 1, c>> \in vertical_walls
    \/ /\ wall_type = "vertical"
       /\ <<r, c>> \in horizontal_walls /\ <<r, c + 1>> \in horizontal_walls

TestWallsH(r, c, wall_type) ==
    IF wall_type = "horizontal"
    THEN horizontal_walls \cup WallUnits(r, c, wall_type) ELSE horizontal_walls

TestWallsV(r, c, wall_type) ==
    IF wall_type = "horizontal"
    THEN vertical_walls ELSE vertical_walls \cup WallUnits(r, c, wall_type)

(* Mutant: only the player placing the wall is checked.                    *)
AllPlayersHavePath_CallerOnly(test_walls_h, test_walls_v) ==
    \/ AtGoal(current_player, player_positions[current_player])
    \/ find_path_to_goal(current_player, test_walls_h, test_walls_v)

(* The loop over the players: those standing on their goal are skipped.    *)
AllPlayersHavePath(test_walls_h, test_walls_v) ==
    \A p_idx \in Players :
        \/ AtGoal(p_idx, player_positions[p_idx])
        \/ find_path_to_goal(p_idx, test_walls_h, test_walls_v)

(* Mutant: the path check is left out.                                     *)
is_valid_wall_placement_NoPathCheck(r, c, wall_type) ==
    /\ WallInBounds(r, c)
    /\ ~WallExists(r, c, wall_type)
    /\ ~WallIntersects(r, c, wall_type)

is_valid_wall_placement(r, c, wall_type) ==
    /\ WallInBounds(r, c)
    /\ ~WallExists(r, c, wall_type)
    /\ ~WallIntersects(r, c, wall_type)
    /\ AllPlayersHavePath(TestWallsH(r, c, wall_type), TestWallsV(r, c, wall_type))

(* -------- next_turn ---------------------------------------------------- *)
(* Mutant: the turn is announced but not passed.                           *)
next_turn_Stays ==
    IF ~game_over
    THEN /\ current_player' = current_player
         /\ message' = TurnMessage(current_player)
    ELSE UNCHANGED <<current_player, message>>

(* Mutant: the turn is passed in a finished game too.                      *)
next_turn_IgnoresGameOver ==
    /\ current_player' = (current_player + 1) % num_players
    /\ message' = TurnMessage((current_player + 1) % num_players)

next_turn ==
    IF ~game_over
    THEN /\ current_player' = (current_player + 1) % num_players
         /\ message' = TurnMessage((current_player + 1) % num_players)
    ELSE UNCHANGED <<current_player, message>>

(* -------- place_wall --------------------------------------------------- *)
WallRecord(r, c, wall_type) ==
    IF wall_type = "horizontal" THEN <<"h", r, c>> ELSE <<"v", r, c>>

(* Mutant: a refused wall is still taken out of the caller's hand.        *)
Reject_CountsWall(text) ==
    /\ message' = text
    /\ ret' = "False"
    /\ walls_remaining' =
           [walls_remaining EXCEPT
               ![current_player] = IF text = InvalidWallMessage THEN @ - 1 ELSE @]
    /\ UNCHANGED <<player_positions, player_walls, horizontal_walls, vertical_walls,
                   current_player, game_over, winner>>

(* self.message = ...; return False                                        *)
Reject(text) ==
    /\ message' = text
    /\ ret' = "False"
    /\ UNCHANGED gameVars

(* Mutant: the new wall's units replace the set of its orientation.        *)
CommitWall_Replaces(r, c, wall_type) ==
    /\ horizontal_walls' =
           IF wall_type = "horizontal" THEN WallUnits(r, c, wall_type)
           ELSE horizontal_walls
    /\ vertical_walls' =
           IF wall_type = "horizontal" THEN vertical_walls
           ELSE WallUnits(r, c, wall_type)
    /\ player_walls' =
           [player_walls EXCEPT
               ![current_player] = Append(@, WallRecord(r, c, wall_type))]
    /\ walls_remaining' = [walls_remaining EXCEPT ![current_player] = @ - 1]
    /\ next_turn
    /\ ret' = "True"
    /\ UNCHANGED <<player_positions, game_over, winner>>

(* Mutant: the wall is not taken out of the caller's hand.                 *)
CommitWall_KeepsHand(r, c, wall_type) ==
    /\ horizontal_walls' = TestWallsH(r, c, wall_type)
    /\ vertical_walls' = TestWallsV(r, c, wall_type)
    /\ player_walls' =
           [player_walls EXCEPT
               ![current_player] = Append(@, WallRecord(r, c, wall_type))]
    /\ next_turn
    /\ ret' = "True"
    /\ UNCHANGED <<walls_remaining, player_positions, game_over, winner>>

(* The wall is valid: add it, record it, count it, pass the turn.          *)
CommitWall(r, c, wall_type) ==
    /\ horizontal_walls' = TestWallsH(r, c, wall_type)
    /\ vertical_walls' = TestWallsV(r, c, wall_type)
    /\ player_walls' =
           [player_walls EXCEPT
               ![current_player] = Append(@, WallRecord(r, c, wall_type))]
    /\ walls_remaining' = [walls_remaining EXCEPT ![current_player] = @ - 1]
    /\ next_turn
    /\ ret' = "True"
    /\ UNCHANGED <<player_positions, game_over, winner>>

(* Mutant: the wall is validated before the caller's hand is looked at.    *)
place_wall_ValidatesFirst(r, c, wall_type) ==
    /\ op' = "place_wall"
    /\ IF ~is_valid_wall_placement(r, c, wall_type) THEN Reject(InvalidWallMessage)
       ELSE IF walls_remaining[current_player] <= 0 THEN Reject(NoWallsMessage)
       ELSE CommitWall(r, c, wall_type)

place_wall(r, c, wall_type) ==
    /\ op' = "place_wall"
    /\ IF walls_remaining[current_player] <= 0 THEN Reject(NoWallsMessage)
       ELSE IF ~is_valid_wall_placement(r, c, wall_type)
            THEN Reject(InvalidWallMessage)
       ELSE CommitWall(r, c, wall_type)

(* -------- move_player -------------------------------------------------- *)
(* Mutant: the turn is passed before the win is looked at.                 *)
CommitMove_PassesTurnOnWin(r, c) ==
    /\ player_positions' = [player_positions EXCEPT ![current_player] = <<r, c>>]
    /\ current_player' = (current_player + 1) % num_players
    /\ IF AtGoal(current_player, <<r, c>>)
       THEN /\ game_over' = TRUE
            /\ winner' = <<current_player>>
            /\ message' = WinMessage(current_player)
       ELSE /\ message' = TurnMessage((current_player + 1) % num_players)
            /\ UNCHANGED <<game_over, winner>>
    /\ ret' = "True"
    /\ UNCHANGED <<walls_remaining, player_walls, horizontal_walls, vertical_walls>>

(* Mutant: the win is not looked for.                                      *)
CommitMove_NoWinCheck(r, c) ==
    /\ player_positions' = [player_positions EXCEPT ![current_player] = <<r, c>>]
    /\ next_turn
    /\ ret' = "True"
    /\ UNCHANGED <<game_over, winner, walls_remaining, player_walls,
                   horizontal_walls, vertical_walls>>

(* The move is legal: set the position, then win or pass the turn.         *)
CommitMove(r, c) ==
    /\ player_positions' = [player_positions EXCEPT ![current_player] = <<r, c>>]
    /\ IF AtGoal(current_player, <<r, c>>)
       THEN /\ game_over' = TRUE
            /\ winner' = <<current_player>>
            /\ message' = WinMessage(current_player)
            /\ UNCHANGED current_player
       ELSE /\ next_turn
            /\ UNCHANGED <<game_over, winner>>
    /\ ret' = "True"
    /\ UNCHANGED <<walls_remaining, player_walls, horizontal_walls, vertical_walls>>

move_player(r, c) ==
    /\ op' = "move_player"
    /\ IF <<r, c>> \notin Range(get_possible_moves) THEN Reject(InvalidMoveMessage)
       ELSE CommitMove(r, c)

(* -------- initialize_game, as the New Game button calls it ------------- *)
(* Mutant: the walls on the board and the lists of them survive.           *)
initialize_game_KeepsWalls ==
    /\ player_positions' = StartPositions
    /\ walls_remaining' = StartWalls
    /\ current_player' = 0
    /\ game_over' = FALSE
    /\ winner' = None
    /\ message' = TurnMessage(0)
    /\ op' = "initialize_game"
    /\ ret' = "None"
    /\ UNCHANGED <<player_walls, horizontal_walls, vertical_walls>>

initialize_game ==
    /\ player_positions' = StartPositions
    /\ walls_remaining' = StartWalls
    /\ player_walls' = [p \in Players |-> <<>>]
    /\ horizontal_walls' = {}
    /\ vertical_walls' = {}
    /\ current_player' = 0
    /\ game_over' = FALSE
    /\ winner' = None
    /\ message' = TurnMessage(0)
    /\ op' = "initialize_game"
    /\ ret' = "None"

(* -------- the calls ---------------------------------------------------- *)
(* Arguments of move_player: every cell of the board, and one point past   *)
(* its edge.  Arguments of place_wall: every anchor, and one intersection  *)
(* past the last anchor, in both orientations.                             *)
Coords == 0 .. (BOARD_SIZE - 1)
Anchors == 0 .. (BOARD_SIZE - 2)
MoveArgs == (Coords \X Coords) \cup {<<BOARD_SIZE, BOARD_SIZE>>}
WallTypes == {"horizontal", "vertical"}
WallArgs ==
    ((Anchors \X Anchors) \cup {<<BOARD_SIZE - 1, BOARD_SIZE - 1>>}) \X WallTypes

(* run(): a board click calls a mutator only while the game is not over.   *)
ClickMove == \E a \in MoveArgs : ~game_over /\ move_player(a[1], a[2])
ClickWall == \E w \in WallArgs : ~game_over /\ place_wall(w[1][1], w[1][2], w[2])
Restart == initialize_game

Next == ClickMove \/ ClickWall \/ Restart
Spec == Init /\ [][Next]_vars

(* The mutators called directly, whatever the state of the game, by a      *)
(* caller that tries walls on the diagonal anchors only.                   *)
DirectWallArgs == {w \in WallArgs : w[1][1] = w[1][2]}

CallMove == \E a \in MoveArgs : move_player(a[1], a[2])
CallWall == \E w \in DirectWallArgs : place_wall(w[1][1], w[1][2], w[2])
CallInit == initialize_game

NextDirect == CallMove \/ CallWall \/ CallInit
SpecDirect == Init /\ [][NextDirect]_vars

(* -------- the queries, called on their own ----------------------------- *)
(* get_possible_moves builds its list in a local; nothing of the game is   *)
(* assigned.                                                               *)
QueryMoves ==
    /\ op' = "get_possible_moves"
    /\ ret' = <<get_possible_moves>>
    /\ UNCHANGED <<gameVars, message>>

(* Mutant: the trial sets are the live sets themselves, not copies.        *)
QueryWall_NoCopy(r, c, wall_type) ==
    /\ op' = "is_valid_wall_placement"
    /\ ret' = <<r, c, wall_type,
                IF is_valid_wall_placement(r, c, wall_type) THEN "True" ELSE "False">>
    /\ IF WallInBounds(r, c) /\ ~WallExists(r, c, wall_type)
             /\ ~WallIntersects(r, c, wall_type)
       THEN /\ horizontal_walls' = TestWallsH(r, c, wall_type)
            /\ vertical_walls' = TestWallsV(r, c, wall_type)
       ELSE UNCHANGED <<horizontal_walls, vertical_walls>>
    /\ UNCHANGED <<player_positions, walls_remaining, player_walls,
                   current_player, game_over, winner, message>>

(* is_valid_wall_placement adds the candidate to copies of the two sets;   *)
(* the search keeps its queue and visited set in locals.                   *)
QueryWall(r, c, wall_type) ==
    /\ op' = "is_valid_wall_placement"
    /\ ret' = <<r, c, wall_type,
                IF is_valid_wall_placement(r, c, wall_type) THEN "True" ELSE "False">>
    /\ UNCHANGED <<gameVars, message>>

(* The game with the queries called between the clicks, whatever the state *)
(* of the game (draw_board validates the hovered wall on every frame), by  *)
(* a caller that tries four walls: two that together close row 1, one      *)
(* vertical wall, and one past the last anchor.                            *)
QueryWallArgs ==
    {<< <<1, 0>>, "horizontal">>, << <<1, 2>>, "horizontal">>,
     << <<0, 1>>, "vertical">>,
     << <<BOARD_SIZE - 1, BOARD_SIZE - 1>>, "horizontal">>}

PlayMove == \E a \in MoveArgs : ~game_over /\ move_player(a[1], a[2])
PlayWall ==
    \E w \in QueryWallArgs : ~game_over /\ place_wall(w[1][1], w[1][2], w[2])
NewGame == initialize_game
AskMoves == QueryMoves
AskWall == \E w \in QueryWallArgs : QueryWall(w[1][1], w[1][2], w[2])

NextQuery == PlayMove \/ PlayWall \/ NewGame \/ AskMoves \/ AskWall
SpecQuery == Init /\ [][NextQuery]_vars

(* -------- every method called directly ------------------------------- *)
(* The mutators and the queries called whatever the state of the game, by  *)
(* a caller that tries the four walls of QueryWallArgs.                    *)
DirectMove == \E a \in MoveArgs : move_player(a[1], a[2])
DirectWall == \E w \in QueryWallArgs : place_wall(w[1][1], w[1][2], w[2])
DirectInit == initialize_game
DirectAskMoves == QueryMoves
DirectAskWall == \E w \in QueryWallArgs : QueryWall(w[1][1], w[1][2], w[2])

NextCalls ==
    DirectMove \/ DirectWall \/ DirectInit \/ DirectAskMoves \/ DirectAskWall
SpecCalls == Init /\ [][NextCalls]_vars

(* -------- one game with a longer hand --------------------------------- *)
(* The source deals ten walls; three walls are enough to shut a pawn in    *)
(* against the other pawn.  Here each hand holds one wall more than        *)
(* START_WALLS, nobody clicks New Game, the pawns are sent to the two      *)
(* middle columns only, and three walls are tried: two vertical walls on   *)
(* either side of the cell above player 0's start and a horizontal wall    *)
(* above that cell.                                                        *)
LongHand == START_WALLS + 1

InitLong ==
    /\ player_positions = StartPositions
    /\ walls_remaining = [p \in Players |-> LongHand]
    /\ player_walls = [p \in Players |-> <<>>]
    /\ horizontal_walls = {}
    /\ vertical_walls = {}
    /\ current_player = 0
    /\ game_over = FALSE
    /\ winner = None
    /\ message = TurnMessage(0)
    /\ op = "__init__"
    /\ ret = "None"

TrapCol == BOARD_SIZE \div 2
TrapMoveArgs == Coords \X {TrapCol - 1, TrapCol}
TrapWallArgs ==
    {<< <<BOARD_SIZE - 2, TrapCol>>, "vertical">>,
     << <<BOARD_SIZE - 3, TrapCol - 1>>, "vertical">>,
     << <<BOARD_SIZE - 3, TrapCol>>, "horizontal">>}

StepMove == \E a \in TrapMoveArgs : ~game_over /\ move_player(a[1], a[2])
StepWall ==
    \E w \in TrapWallArgs : ~game_over /\ place_wall(w[1][1], w[1][2], w[2])

NextTrap == StepMove \/ StepWall
SpecTrap == InitLong /\ [][NextTrap]_vars

(* ======================================================================= *)
(* Properties                                                              *)
(* ======================================================================= *)

(* What the properties mean by a wall between two orthogonally adjacent    *)
(* cells: a horizontal unit (r, c) lies between (r, c) and (r + 1, c), a   *)
(* vertical unit (r, c) between (r, c) and (r, c + 1).                     *)
Cells == (0 .. (BOARD_SIZE - 1)) \X (0 .. (BOARD_SIZE - 1))

Adjacent(a, b) ==
    \/ a[1] = b[1] /\ (a[2] - b[2] = 1 \/ b[2] - a[2] = 1)
    \/ a[2] = b[2] /\ (a[1] - b[1] = 1 \/ b[1] - a[1] = 1)

WallBetween(a, b, H, V) ==
    \/ a[2] = b[2] /\ b[1] = a[1] + 1 /\ a \in H
    \/ a[2] = b[2] /\ a[1] = b[1] + 1 /\ b \in H
    \/ a[1] = b[1] /\ b[2] = a[2] + 1 /\ a \in V
    \/ a[1] = b[1] /\ a[2] = b[2] + 1 /\ b \in V

OpenNeighbours(a, H, V) ==
    {b \in {<<a[1] + d[1], a[2] + d[2]>> : d \in Range(Directions)} :
        b \in Cells /\ ~WallBetween(a, b, H, V)}

(* The cells joined to `seen` by steps that cross no unit.                 *)
RECURSIVE Closure(_, _, _, _)
Closure(seen, frontier, H, V) ==
    IF frontier = {} THEN seen
    ELSE LET new == (UNION {OpenNeighbours(a, H, V) : a \in frontier}) \ seen
         IN  Closure(seen \cup new, new, H, V)

(* The goals as the rules give them: player 0 the top row, player 1 the    *)
(* bottom row, player 2 the right column, player 3 the left column.        *)
SatisfiesGoal(p, cell) ==
    \/ p = 0 /\ cell[1] = 0
    \/ p = 1 /\ cell[1] = BOARD_SIZE - 1
    \/ p = 2 /\ cell[2] = BOARD_SIZE - 1
    \/ p = 3 /\ cell[2] = 0

(* Some goal cell of p is joined to its cell by steps crossing no unit.    *)
GoalReachable(p, H, V) ==
    \E g \in Closure({player_positions[p]}, {player_positions[p]}, H, V) :
        SatisfiesGoal(p, g)

PawnOn(cell) == \E p \in Players : player_positions[p] = cell
OpponentOn(cell) ==
    \E p \in Players : p # current_player /\ player_positions[p] = cell

LegalMoves == Range(get_possible_moves)

(* A candidate that passes the bounds, overlap and crossing checks.        *)
StructurallyFree(r, c, t) ==
    WallInBounds(r, c) /\ ~WallExists(r, c, t) /\ ~WallIntersects(r, c, t)

Mutators == {"move_player", "place_wall"}

(* C1: in every state reached by accepted moves and accepted walls, every  *)
(* player has a path of single orthogonal steps, crossing no placed        *)
(* blocker unit, from its cell to a cell of its goal (pawns ignored).      *)
C1_EveryPlayerHasPath ==
    \A p \in Players : GoalReachable(p, horizontal_walls, vertical_walls)

(* A wall has been accepted, and another candidate that passes the         *)
(* structural checks would now cut some player off.                        *)
C1_Witness ==
    /\ op = "place_wall" /\ ret = "True"
    /\ \E w \in WallArgs :
          LET r == w[1][1]
              c == w[1][2]
              t == w[2]
          IN  /\ StructurallyFree(r, c, t)
              /\ \E p \in Players :
                    ~GoalReachable(p, TestWallsH(r, c, t), TestWallsV(r, c, t))

(* C2: a rejected move_player or place_wall leaves positions, both blocker *)
(* sets, wall counts, placed-wall lists, current player, game-over flag    *)
(* and winner as they were.                                                *)
C2_RejectedCallChangesNothing ==
    [][ /\ (op' \in Mutators /\ ret' = "False") => UNCHANGED gameVars
        /\ (op' = "place_wall" /\ walls_remaining[current_player] <= 0)
              => (ret' = "False" /\ UNCHANGED gameVars)
        /\ (op' = "move_player" /\ ret' # "False")
              => player_positions'[current_player] \in LegalMoves
        /\ (op' = "place_wall" /\ ret' # "False")
              => \E w \in WallArgs :
                    /\ horizontal_walls' = TestWallsH(w[1][1], w[1][2], w[2])
                    /\ vertical_walls' = TestWallsV(w[1][1], w[1][2], w[2])
                    /\ is_valid_wall_placement(w[1][1], w[1][2], w[2])
      ]_vars

(* A wall has just been refused for failing validation, with walls already *)
(* on the board and walls still in the caller's hand.                      *)
C2_Witness ==
    /\ op = "place_wall" /\ ret = "False" /\ message = InvalidWallMessage
    /\ horizontal_walls \cup vertical_walls # {}
    /\ walls_remaining[current_player] > 0

(* C3: once a winner is determined, every later move_player or place_wall  *)
(* call is rejected and modifies nothing.                                  *)
C3_NoMutationAfterGameOver ==
    [][ (game_over /\ op' \in Mutators)
            => (ret' = "False" /\ UNCHANGED gameVars) ]_vars

(* C4: in an in-progress game each successful move that does not win and   *)
(* each successful wall changes current_player from p to (p + 1) mod       *)
(* num_players; no other call of a mutator changes current_player.         *)
C4_TurnAdvancesByOne ==
    [][ op' \in Mutators
            => IF ~game_over /\ ret' = "True" /\ ~game_over'
               THEN current_player' = (current_player + 1) % num_players
               ELSE current_player' = current_player ]_vars

(* The turn has come back to player 0 after the last player's accepted     *)
(* mutation.                                                               *)
C4_Witness ==
    /\ ~game_over /\ op \in Mutators /\ ret = "True"
    /\ current_player = 0
    /\ \E p \in Players : player_walls[p] # <<>>

(* What a successful move_player(r, c) is to do.                           *)
C5_MoveEffect(r, c) ==
    /\ player_positions' = [player_positions EXCEPT ![current_player] = <<r, c>>]
    /\ UNCHANGED <<horizontal_walls, vertical_walls, walls_remaining, player_walls>>
    /\ IF SatisfiesGoal(current_player, <<r, c>>)
       THEN /\ game_over' = TRUE
            /\ winner' = <<current_player>>
            /\ current_player' = current_player
       ELSE /\ game_over' = FALSE
            /\ current_player' = (current_player + 1) % num_players

(* C5: every successful move_player step is a call move_player(r, c) that  *)
(* sets only the active player's position, to (r, c); walls, counts and    *)
(* lists stay; on a goal cell the game is over with the mover as winner    *)
(* and the turn stays, otherwise the game stays in progress and the turn   *)
(* advances by one.                                                        *)
C5_SuccessfulMove ==
    [][ (op' = "move_player" /\ ret' = "True")
            => \E a \in MoveArgs :
                  C5_MoveEffect(a[1], a[2]) /\ move_player(a[1], a[2]) ]_vars

(* A move has just won the game.                                           *)
C5_Witness ==
    /\ op = "move_player" /\ ret = "True"
    /\ game_over /\ winner = <<current_player>>
    /\ SatisfiesGoal(current_player, player_positions[current_player])

(* The jump over the pawn next to the active player, in direction d, is   *)
(* open.                                                                  *)
C6_JumpCase(d) ==
    LET A == player_positions[current_player]
        B == <<A[1] + d[1], A[2] + d[2]>>
        C == <<B[1] + d[1], B[2] + d[2]>>
    IN  /\ B \in Cells /\ OpponentOn(B)
        /\ ~WallBetween(A, B, horizontal_walls, vertical_walls)
        /\ C \in Cells /\ ~PawnOn(C)
        /\ ~WallBetween(B, C, horizontal_walls, vertical_walls)

(* C6: opponent on the adjacent cell B, no wall between, the cell C beyond *)
(* B in bounds, not walled off from B and free: C is legal and B is not.   *)
C6_StraightJump ==
    \A d \in Range(Directions) :
        C6_JumpCase(d) =>
            LET A == player_positions[current_player]
                B == <<A[1] + d[1], A[2] + d[2]>>
                C == <<B[1] + d[1], B[2] + d[2]>>
            IN  C \in LegalMoves /\ B \notin LegalMoves

(* The jump is available sideways, with walls on the board.                *)
C6_Witness ==
    /\ ~game_over
    /\ vertical_walls # {}
    /\ C6_JumpCase(<<0, 1>>) \/ C6_JumpCase(<<0, -1>>)

(* The two directions across direction d.                                  *)
Perpendicular(d) ==
    IF d[1] # 0 THEN {<<0, -1>>, <<0, 1>>} ELSE {<<-1, 0>>, <<1, 0>>}

(* C7: opponent on the adjacent cell B, no wall between, the cell beyond B *)
(* off the board: each of the two cells beside B, perpendicular to the     *)
(* approach, that is in bounds, not walled off from B and free is legal.   *)
C7_DiagonalSideJumps ==
    \A d \in Range(Directions) :
        LET A == player_positions[current_player]
            B == <<A[1] + d[1], A[2] + d[2]>>
            C == <<B[1] + d[1], B[2] + d[2]>>
        IN  (/\ B \in Cells /\ OpponentOn(B)
             /\ ~WallBetween(A, B, horizontal_walls, vertical_walls)
             /\ C \notin Cells)
            => \A e \in Perpendicular(d) :
                  LET D == <<B[1] + e[1], B[2] + e[2]>>
                  IN  (/\ D \in Cells /\ ~PawnOn(D)
                       /\ ~WallBetween(B, D, horizontal_walls, vertical_walls))
                      => D \in LegalMoves

(* C8: the players' positions are pairwise distinct and on the board.      *)
C8_DistinctPositions ==
    /\ \A p \in Players : player_positions[p] \in Cells
    /\ \A p \in Players, q \in Players :
          p # q => player_positions[p] # player_positions[q]

(* A pawn has just moved and now stands next to the other one, with no     *)
(* wall between them.                                                      *)
C8_Witness ==
    /\ ~game_over /\ op = "move_player" /\ ret = "True"
    /\ Adjacent(player_positions[0], player_positions[1])
    /\ ~WallBetween(player_positions[0], player_positions[1],
                    horizontal_walls, vertical_walls)

(* What a successful place_wall(r, c, t) is to do.                         *)
C9_WallEffect(r, c, t) ==
    /\ IF t = "horizontal"
       THEN /\ horizontal_walls' = horizontal_walls \cup {<<r, c>>, <<r, c + 1>>}
            /\ Cardinality(horizontal_walls') = Cardinality(horizontal_walls) + 2
            /\ vertical_walls' = vertical_walls
       ELSE /\ vertical_walls' = vertical_walls \cup {<<r, c>>, <<r + 1, c>>}
            /\ Cardinality(vertical_walls') = Cardinality(vertical_walls) + 2
            /\ horizontal_walls' = horizontal_walls
    /\ player_positions' = player_positions
    /\ walls_remaining' =
           [walls_remaining EXCEPT ![current_player] = walls_remaining[current_player] - 1]
    /\ player_walls' =
           [player_walls EXCEPT
               ![current_player] =
                   Append(player_walls[current_player],
                          <<IF t = "horizontal" THEN "h" ELSE "v", r, c>>)]
    /\ current_player' = (current_player + 1) % num_players

(* C9: every successful place_wall step is a call place_wall(r, c,         *)
(* orientation) that adds exactly the wall's two units to the set of its   *)
(* orientation, leaves the other set and the positions, takes one wall     *)
(* from the active player only, appends the wall to the active player's    *)
(* list only, and advances the turn by one.                                *)
C9_SuccessfulWall ==
    [][ (op' = "place_wall" /\ ret' = "True")
            => \E w \in WallArgs :
                  /\ C9_WallEffect(w[1][1], w[1][2], w[2])
                  /\ place_wall(w[1][1], w[1][2], w[2]) ]_vars

(* A vertical wall has just been accepted next to walls already placed.    *)
C9_Witness ==
    /\ op = "place_wall" /\ ret = "True"
    /\ Cardinality(vertical_walls) >= 2 /\ Cardinality(horizontal_walls) >= 2
    /\ \E p \in Players :
          /\ player_walls[p] # <<>>
          /\ player_walls[p][Len(player_walls[p])][1] = "v"
          /\ current_player = (p + 1) % num_players

(* C10: place_wall by a player with no wall left is rejected with the      *)
(* no-walls-remaining outcome, whatever the candidate; no wall is added.   *)
C10_NoWallsRemaining ==
    [][ (op' = "place_wall" /\ walls_remaining[current_player] = 0)
            => /\ ret' = "False"
               /\ message' = NoWallsMessage
               /\ UNCHANGED <<horizontal_walls, vertical_walls, player_walls,
                              walls_remaining>> ]_vars

(* The refusal has happened in a state where a valid candidate exists and  *)
(* an invalid one too.                                                     *)
C10_Witness ==
    /\ op = "place_wall" /\ ret = "False" /\ message = NoWallsMessage
    /\ walls_remaining[current_player] = 0
    /\ \E w \in WallArgs : is_valid_wall_placement(w[1][1], w[1][2], w[2])
    /\ \E w \in WallArgs :
          WallInBounds(w[1][1], w[1][2])
              /\ ~is_valid_wall_placement(w[1][1], w[1][2], w[2])

(* The first check of the wall validator that a candidate fails, by the    *)
(* rules' names for the failures.                                          *)
WallFailure(r, c, t) ==
    IF ~WallInBounds(r, c) THEN "OutOfBounds"
    ELSE IF WallExists(r, c, t) THEN "Overlaps"
    ELSE IF WallIntersects(r, c, t) THEN "CrossesExistingWall"
    ELSE IF ~AllPlayersHavePath(TestWallsH(r, c, t), TestWallsV(r, c, t))
         THEN "BlocksAllPaths"
    ELSE "None"

(* C11: what a rejected place_wall reports (its result and message), for a *)
(* player with a wall in hand, identifies why the candidate failed: any    *)
(* two candidates whose rejection produces this same outcome failed for    *)
(* the same reason (out of bounds, overlap, crossing, blocked path).       *)
C11_RejectionIdentifiesReason ==
    [][ (op' = "place_wall" /\ ret' = "False"
            /\ walls_remaining[current_player] > 0)
            => \A w1 \in WallArgs, w2 \in WallArgs :
                  (place_wall(w1[1][1], w1[1][2], w1[2])
                      /\ place_wall(w2[1][1], w2[1][2], w2[2]))
                  => WallFailure(w1[1][1], w1[1][2], w1[2])
                         = WallFailure(w2[1][1], w2[1][2], w2[2]) ]_vars

(* Every player not on its goal keeps a path when the candidate's two      *)
(* units are added.                                                        *)
LeavesEveryPath(r, c, t) ==
    \A p \in Players :
        \/ SatisfiesGoal(p, player_positions[p])
        \/ GoalReachable(p, TestWallsH(r, c, t), TestWallsV(r, c, t))

(* What the validator has to say of the candidates of an active player    *)
(* with a wall in hand, in a game in progress.                             *)
C12_ValidatorFollowsPaths ==
    (~game_over /\ walls_remaining[current_player] > 0)
        => \A w \in WallArgs :
              StructurallyFree(w[1][1], w[1][2], w[2])
                  => (is_valid_wall_placement(w[1][1], w[1][2], w[2])
                         <=> LeavesEveryPath(w[1][1], w[1][2], w[2]))

(* C12: in a game in progress, for an active player with a wall in hand,   *)
(* the validator passes a candidate that is in bounds, overlaps nothing    *)
(* and crosses nothing exactly when every player not on its goal keeps a   *)
(* path with the candidate's two units added; and every wall that          *)
(* place_wall accepts is such a candidate that keeps every path.           *)
C12_PathDecidesFreeCandidate ==
    /\ []C12_ValidatorFollowsPaths
    /\ [][ (op' = "place_wall" /\ ret' = "True" /\ ~game_over)
              => \E w \in WallArgs :
                    /\ horizontal_walls' = TestWallsH(w[1][1], w[1][2], w[2])
                    /\ vertical_walls' = TestWallsV(w[1][1], w[1][2], w[2])
                    /\ StructurallyFree(w[1][1], w[1][2], w[2])
                    /\ LeavesEveryPath(w[1][1], w[1][2], w[2]) ]_vars

(* A candidate has just been refused from a player with a wall in hand,   *)
(* in a state where one free candidate would complete a barrier and        *)
(* another would leave every path open.                                    *)
C12_Witness ==
    /\ op = "place_wall" /\ ret = "False" /\ ~game_over
    /\ walls_remaining[current_player] > 0
    /\ \E w \in WallArgs :
          /\ StructurallyFree(w[1][1], w[1][2], w[2])
          /\ ~LeavesEveryPath(w[1][1], w[1][2], w[2])
    /\ \E w \in WallArgs :
          /\ StructurallyFree(w[1][1], w[1][2], w[2])
          /\ LeavesEveryPath(w[1][1], w[1][2], w[2])

(* C13: initialize_game, from any state, gives the starting state: player  *)
(* 0 on (N-1, N div 2) with goal row 0, player 1 on (0, N div 2) with goal *)
(* row N-1, the starting wall count in every hand, both blocker sets and   *)
(* every placed-wall list empty, player 0 to move, no game over, no winner.*)
C13_ResetGivesStart ==
    [][ op' = "initialize_game"
            => /\ player_positions' =
                      [p \in Players |->
                          IF p = 0 THEN <<BOARD_SIZE - 1, BOARD_SIZE \div 2>>
                          ELSE <<0, BOARD_SIZE \div 2>>]
               /\ win_rows[0] = <<0>> /\ win_rows[1] = <<BOARD_SIZE - 1>>
               /\ win_cols[0] = None /\ win_cols[1] = None
               /\ walls_remaining' = [p \in Players |-> START_WALLS]
               /\ horizontal_walls' = {} /\ vertical_walls' = {}
               /\ \A p \in Players : player_walls'[p] = <<>>
               /\ current_player' = 0
               /\ game_over' = FALSE
               /\ winner' = None ]_vars

(* The game has just been reset.                                           *)
C13_Witness ==
    /\ op = "initialize_game"
    /\ player_positions[0] = <<BOARD_SIZE - 1, BOARD_SIZE \div 2>>
    /\ walls_remaining[1] = START_WALLS
    /\ ~game_over

Queries == {"get_possible_moves", "is_valid_wall_placement"}

(* C14: a call of get_possible_moves or is_valid_wall_placement, whatever  *)
(* it returns, leaves positions, both live blocker sets, wall counts,      *)
(* current player and the game-over flag unchanged; and a query called     *)
(* right after the same query with the same arguments returns the same     *)
(* result.                                                                 *)
C14_QueriesReadOnly ==
    [][ op' \in Queries
            => /\ UNCHANGED <<player_positions, horizontal_walls, vertical_walls,
                              walls_remaining, current_player, game_over>>
               /\ (op = op' /\ Len(ret) = Len(ret')
                      /\ SubSeq(ret, 1, Len(ret) - 1) = SubSeq(ret', 1, Len(ret') - 1))
                     => ret' = ret ]_vars

(* The validator has just accepted a candidate next to a wall on the       *)
(* board, and the candidate's units are not in the live sets.              *)
C14_Witness ==
    /\ op = "is_valid_wall_placement" /\ ret[4] = "True"
    /\ horizontal_walls # {}
    /\ \/ TestWallsH(ret[1], ret[2], ret[3]) # horizontal_walls
       \/ TestWallsV(ret[1], ret[2], ret[3]) # vertical_walls

IsPrefix(s, t) == Len(s) <= Len(t) /\ SubSeq(t, 1, Len(s)) = s

(* C15: every step other than a reset leaves both blocker sets supersets   *)
(* of what they were, and every player's placed-wall list an extension of  *)
(* what it was.                                                            *)
C15_WallsOnlyGrow ==
    [][ op' # "initialize_game"
            => /\ horizontal_walls \subseteq horizontal_walls'
               /\ vertical_walls \subseteq vertical_walls'
               /\ \A p \in Players : IsPrefix(player_walls[p], player_walls'[p])
      ]_vars

(* A pawn has just moved on a board that carries a wall from each player.  *)
C15_Witness ==
    /\ op = "move_player" /\ ret = "True"
    /\ \A p \in Players : player_walls[p] # <<>>
    /\ Cardinality(horizontal_walls \cup vertical_walls) >= 3

(* The walls in the players' lists, and the two units of one of them.      *)
PlacedWalls == UNION {Range(player_walls[p]) : p \in Players}

UnitsOf(wall) ==
    IF wall[1] = "h" THEN {<<wall[2], wall[3]>>, <<wall[2], wall[3] + 1>>}
    ELSE {<<wall[2], wall[3]>>, <<wall[2] + 1, wall[3]>>}

(* C16: the horizontal set has twice as many units as there are horizontal *)
(* walls in the lists, likewise the vertical set, and every unit of a set  *)
(* is a unit of exactly one listed wall of that orientation.               *)
C16_NoSharedUnit ==
    /\ \A p \in Players :
          Cardinality(Range(player_walls[p])) = Len(player_walls[p])
    /\ \A p \in Players, q \in Players :
          p # q => Range(player_walls[p]) \cap Range(player_walls[q]) = {}
    /\ Cardinality(horizontal_walls)
          = 2 * Cardinality({w \in PlacedWalls : w[1] = "h"})
    /\ Cardinality(vertical_walls)
          = 2 * Cardinality({w \in PlacedWalls : w[1] = "v"})
    /\ \A u \in horizontal_walls :
          Cardinality({w \in PlacedWalls : w[1] = "h" /\ u \in UnitsOf(w)}) = 1
    /\ \A u \in vertical_walls :
          Cardinality({w \in PlacedWalls : w[1] = "v" /\ u \in UnitsOf(w)}) = 1

(* Two vertical walls stand end to end in one column.                      *)
C16_Witness ==
    /\ op = "place_wall" /\ ret = "True"
    /\ \E w \in PlacedWalls, x \in PlacedWalls :
          /\ w[1] = "v" /\ x[1] = "v"
          /\ w[3] = x[3] /\ x[2] = w[2] + 2

(* C17: no anchor carries both a horizontal and a vertical listed wall.    *)
C17_NoCrossing ==
    \A w \in PlacedWalls, x \in PlacedWalls :
        (w[1] = "h" /\ x[1] = "v") => <<w[2], w[3]>> # <<x[2], x[3]>>

(* A candidate has just been refused from a player with a wall in hand,    *)
(* in a state where the candidate across the wall on the board is in       *)
(* bounds, overlaps nothing and would leave every path open.               *)
C17_Witness ==
    /\ op = "place_wall" /\ ret = "False"
    /\ walls_remaining[current_player] > 0
    /\ \E w \in PlacedWalls :
          LET t == IF w[1] = "h" THEN "vertical" ELSE "horizontal"
          IN  /\ WallInBounds(w[2], w[3])
              /\ ~WallExists(w[2], w[3], t)
              /\ LeavesEveryPath(w[2], w[3], t)
              /\ ~is_valid_wall_placement(w[2], w[3], t)

(* C18: a candidate that is in bounds, overlaps no unit, leaves every      *)
(* path open and whose anchor is not the anchor of a listed perpendicular  *)
(* wall passes the validator (so that place_wall accepts it from a player  *)
(* with a wall in hand).                                                   *)
C18_OnlyRealCrossingsRejected ==
    \A w \in WallArgs :
        LET r == w[1][1]
            c == w[1][2]
            t == w[2]
            across == IF t = "horizontal" THEN "v" ELSE "h"
        IN  (/\ WallInBounds(r, c)
             /\ ~WallExists(r, c, t)
             /\ <<across, r, c>> \notin PlacedWalls
             /\ LeavesEveryPath(r, c, t))
            => is_valid_wall_placement(r, c, t)

(* Every cell the search of find_path_to_goal puts on its queue, in order: *)
(* the start, then what each pass of the while loop appends.               *)
RECURSIVE EnqueueLog(_, _, _, _, _, _)
EnqueueLog(player_idx, queue, visited, H, V, log) ==
    IF queue = <<>> THEN log
    ELSE IF AtGoal(player_idx, Head(queue)) THEN log
    ELSE LET next == Expand(1, Head(queue), Tail(queue), visited, H, V)
         IN  EnqueueLog(player_idx, next[1], next[2], H, V,
                        log \o SubSeq(next[1], Len(queue), Len(next[1])))

Enqueued(p, H, V) ==
    EnqueueLog(p, <<player_positions[p]>>, {player_positions[p]}, H, V,
               <<player_positions[p]>>)

(* C19: for every trial set the validator hands to find_path_to_goal on    *)
(* behalf of place_wall (the live sets plus a candidate that passed the    *)
(* bounds, overlap and crossing checks) and every player, the search       *)
(* answers true exactly when a goal cell is joined to the player's cell by *)
(* in-bounds orthogonal steps crossing no unit of the trial sets, wherever *)
(* the pawns stand; it puts no cell on its queue twice, so it ends after   *)
(* at most one pass per cell.                                              *)
C19_SearchIsReachability ==
    (~game_over /\ walls_remaining[current_player] > 0)
        => \A w \in WallArgs :
              StructurallyFree(w[1][1], w[1][2], w[2])
                  => \A p \in Players :
                        LET H == TestWallsH(w[1][1], w[1][2], w[2])
                            V == TestWallsV(w[1][1], w[1][2], w[2])
                            log == Enqueued(p, H, V)
                        IN  /\ find_path_to_goal(p, H, V) <=> GoalReachable(p, H, V)
                            /\ Cardinality(Range(log)) = Len(log)
                            /\ Range(log) \subseteq Cells

(* A candidate that uses both orientations would shut a player in: the     *)
(* search fails for it while horizontal units alone leave its goal open.   *)
C19_Witness ==
    /\ ~game_over /\ walls_remaining[current_player] > 0
    /\ \E w \in WallArgs, p \in Players :
          /\ StructurallyFree(w[1][1], w[1][2], w[2])
          /\ ~find_path_to_goal(p, TestWallsH(w[1][1], w[1][2], w[2]),
                                TestWallsV(w[1][1], w[1][2], w[2]))
          /\ GoalReachable(p, TestWallsH(w[1][1], w[1][2], w[2]), {})

(* C20: every legal move of the active player is a cell of the board with  *)
(* no pawn on it, and is either one open step from the player's cell or    *)
(* one open step from an adjacent opponent's cell that is itself one open  *)
(* step from the player's cell.                                            *)
C20_MovesAreOpen ==
    \A m \in LegalMoves :
        LET A == player_positions[current_player]
        IN  /\ m \in Cells
            /\ ~PawnOn(m)
            /\ \/ Adjacent(A, m)
                     /\ ~WallBetween(A, m, horizontal_walls, vertical_walls)
               \/ \E B \in Cells :
                     /\ OpponentOn(B) /\ Adjacent(A, B) /\ Adjacent(B, m)
                     /\ ~WallBetween(A, B, horizontal_walls, vertical_walls)
                     /\ ~WallBetween(B, m, horizontal_walls, vertical_walls)

(* The active player stands next to the opponent with a wall right behind  *)
(* the opponent, and has a wall beside itself as well.                     *)
C20_Witness ==
    /\ ~game_over
    /\ LegalMoves # {}
    /\ \E d \in Range(Directions) :
          LET A == player_positions[current_player]
              B == <<A[1] + d[1], A[2] + d[2]>>
              C == <<B[1] + d[1], B[2] + d[2]>>
          IN  /\ B \in Cells /\ C \in Cells /\ OpponentOn(B)
              /\ ~WallBetween(A, B, horizontal_walls, vertical_walls)
              /\ WallBetween(B, C, horizontal_walls, vertical_walls)
    /\ \E b \in Cells :
          /\ Adjacent(player_positions[current_player], b)
          /\ WallBetween(player_positions[current_player], b,
                         horizontal_walls, vertical_walls)

(* The opponent stands next to the active player in direction d, no wall   *)
(* between them, and the landing cell behind it is on the board but        *)
(* walled off from the opponent's cell or occupied.                        *)
C21_BlockedJump(d) ==
    LET A == player_positions[current_player]
        B == <<A[1] + d[1], A[2] + d[2]>>
        C == <<B[1] + d[1], B[2] + d[2]>>
    IN  /\ B \in Cells /\ OpponentOn(B)
        /\ ~WallBetween(A, B, horizontal_walls, vertical_walls)
        /\ C \in Cells
        /\ WallBetween(B, C, horizontal_walls, vertical_walls) \/ PawnOn(C)

(* C21: in the case above direction d contributes no destination: the     *)
(* pass of the direction loop appends nothing, and neither the landing     *)
(* cell nor a cell beside the opponent, diagonal to the player, is legal.  *)
C21_BlockedJumpGivesNothing ==
    \A d \in Range(Directions) :
        C21_BlockedJump(d) =>
            LET A == player_positions[current_player]
                B == <<A[1] + d[1], A[2] + d[2]>>
                C == <<B[1] + d[1], B[2] + d[2]>>
            IN  /\ MovesInDirection(A[1], A[2], d[1], d[2]) = <<>>
                /\ C \notin LegalMoves
                /\ \A e \in Perpendicular(d) :
                      <<B[1] + e[1], B[2] + e[2]>> \notin LegalMoves

(* The jump is stopped by a horizontal wall behind the opponent while a    *)
(* cell beside the opponent is free and open.                              *)
C21_Witness ==
    /\ ~game_over
    /\ \E d \in {<<-1, 0>>, <<1, 0>>} :
          /\ C21_BlockedJump(d)
          /\ \E e \in Perpendicular(d) :
                LET A == player_positions[current_player]
                    B == <<A[1] + d[1], A[2] + d[2]>>
                    D == <<B[1] + e[1], B[2] + e[2]>>
                IN  /\ D \in Cells /\ ~PawnOn(D)
                    /\ ~WallBetween(B, D, horizontal_walls, vertical_walls)

(* C24: no hand is negative, and every player's hand plus the number of    *)
(* walls in its placed-wall list is the starting count.                    *)
C24_WallsConserved ==
    \A p \in Players :
        /\ walls_remaining[p] >= 0
        /\ walls_remaining[p] + Len(player_walls[p]) = START_WALLS

(* A player who has placed its last wall has just been refused another.    *)
C24_Witness ==
    /\ op = "place_wall" /\ ret = "False" /\ message = NoWallsMessage
    /\ walls_remaining[current_player] = 0
    /\ Len(player_walls[current_player]) = START_WALLS

(* C25: while the game is not over no player stands on a cell of its own   *)
(* goal and there is no winner, so the validator's loop skips no player.   *)
C25_NobodyOnGoalInPlay ==
    ~game_over
        => /\ winner = None
           /\ \A p \in Players :
                 /\ ~SatisfiesGoal(p, player_positions[p])
                 /\ ~AtGoal(p, player_positions[p])

(* The game is in progress and the active player is one step from its      *)
(* goal, after a wall has been validated.                                  *)
C25_Witness ==
    /\ ~game_over
    /\ horizontal_walls \cup vertical_walls # {}
    /\ \E m \in LegalMoves : SatisfiesGoal(current_player, m)

(* C22: while the game is in progress the active player's list of legal    *)
(* moves is not empty.                                                     *)
C22_MovesNeverEmpty ==
    ~game_over => get_possible_moves # <<>>

(* C23: while the game is in progress some call of the active player is    *)
(* accepted: move_player for some cell, or place_wall for some wall.       *)
C23_SomeActionAccepted ==
    ~game_over
        => \/ \E a \in MoveArgs : a \in LegalMoves
           \/ /\ walls_remaining[current_player] > 0
              /\ \E w \in WallArgs :
                    is_valid_wall_placement(w[1][1], w[1][2], w[2])

(* C26: in a finished game every call other than initialize_game leaves    *)
(* the game finished and the winner the same, and the winner is the        *)
(* current player; the game becomes finished only by a move_player call    *)
(* of the then current player onto its goal, who is the winner.            *)
C26_TerminalStable ==
    [][ /\ (game_over /\ op' # "initialize_game")
              => /\ game_over'
                 /\ winner' = winner
                 /\ winner' = <<current_player'>>
        /\ (~game_over /\ game_over')
              => /\ op' = "move_player"
                 /\ winner' = <<current_player>>
                 /\ current_player' = current_player
                 /\ SatisfiesGoal(current_player,
                                  player_positions'[current_player])
                 /\ \A p \in Players :
                       p # current_player
                           => player_positions'[p] = player_positions[p]
      ]_vars

(* The winner's pawn has been moved off its goal in a finished game.       *)
C26_Witness ==
    /\ game_over /\ op = "move_player" /\ ret = "True"
    /\ winner = <<current_player>>
    /\ ~SatisfiesGoal(current_player, player_positions[current_player])

====
